---- MODULE Spec2Model ----
(***************************************************************************)
(* Thai typo checker for DOCX (src/app.py): the paragraph scan check_docx, *)
(* its helpers find_invalid_periods, find_common_errors, safe_check and    *)
(* find_l_errors, and the highlighter render_html.                         *)
(*                                                                         *)
(* A string is a sequence of chunks.  A chunk is one character of the      *)
(* text, or a run of characters that no pattern of the program looks       *)
(* inside (the word "mark", an attribute value, an HTML entity, one of the *)
(* spell checker's two markers).  Thai characters are written in ASCII:    *)
(*     "s" = SO SUA (U+0E2A)      "r" = RO RUA (U+0E23)                    *)
(*     "y" = YO YAK (U+0E22)      "a" = SARA AA (U+0E32)                   *)
(*     "k" = KHO KHWAI (U+0E04)   "p" = PHO PHAN (U+0E1E)                  *)
(*     "h" = SO SALA (U+0E28)     "t1" = THAI DIGIT ONE (U+0E51)           *)
(*     "U+0E3A" = PHINTHU                                                  *)
(***************************************************************************)
EXTENDS Integers, Sequences, FiniteSets, TLC

VARIABLES
    pc,            \* where the script is: idle, scan, crashed, returned, rendered, clean
    paragraphs,    \* doc.paragraphs: the raw paragraph texts of the uploaded file
    i,             \* the loop index of check_docx (0-based, as enumerate gives it)
    results,       \* check_docx's list of findings
    l_paragraphs,  \* check_docx's list of <<line_no, l_number>>
    exception,     \* the exception that left check_docx, or "none"
    spell_raised,  \* line numbers on which thaispellcheck.check raised
    rendered,      \* per finding, the annotated text render_html produced
    l_input,       \* find_l_errors on its own: the argument
    l_output       \* find_l_errors on its own: <<"none">> or <<"ok", errors>>

vars == <<pc, paragraphs, i, results, l_paragraphs, exception, spell_raised,
          rendered, l_input, l_output>>

-----------------------------------------------------------------------------
(* Bounds of the model *)

MaxParas == 2

MaxMarks == 1

MaxLPairs == 4

MaxLNumber == 5

-----------------------------------------------------------------------------
(* Constants of the program *)

PHINTHU == "U+0E3A"

\* Two of the words of COMMON_ERRORS: SO-AA and SO-AA-YO.
COMMON_ERRORS == { <<"s", "a">>, <<"s", "a", "y">> }

ERR_OPEN == "<ERR>"

ERR_CLOSE == "</ERR>"

ContextRadius == 5

\* The names bound at module level when find_invalid_periods runs.
ModuleGlobals ==
    { "st", "docx", "thaispellcheck", "html_lib", "re", "PHINTHU", "COMMON_ERRORS",
      "VALID_PERIOD_PATTERNS", "uploaded_file", "find_invalid_periods",
      "find_common_errors", "safe_check", "find_l_errors", "check_docx",
      "render_html" }

ArabicDigits == { "0", "1", "2", "3", "4", "5", "6", "7", "8", "9" }

ThaiDigits == { "t1" }

ThaiConsonants == { "s", "r", "y", "k", "p", "h" }

ThaiChunks == ThaiConsonants \cup { "a", PHINTHU }

\* \w of the re module: letters and digits (a combining mark is not one).
IsWordChar(c) == c \in ArabicDigits \cup ThaiDigits \cup ThaiConsonants \cup { "a", "L", "l", "mark" }

\* len() of a chunk in characters.
CharLen(c) ==
    CASE c = "mark" -> 4
      [] c = ERR_OPEN -> 7
      [] c = ERR_CLOSE -> 8
      [] OTHER -> 1

-----------------------------------------------------------------------------
(* Strings *)

Range(s) == { s[n] : n \in 1..Len(s) }

RECURSIVE StrLen(_)
StrLen(s) == IF s = <<>> THEN 0 ELSE CharLen(Head(s)) + StrLen(Tail(s))

IsAt(s, w, p) ==
    /\ p >= 1
    /\ p + Len(w) - 1 <= Len(s)
    /\ \A n \in 1..Len(w) : s[p + n - 1] = w[n]

\* w in s
Contains(s, w) == \E p \in 1..(Len(s) + 1) : IsAt(s, w, p)

StartsWith(s, w) == IsAt(s, w, 1)

EndsWith(s, w) == Len(s) >= Len(w) /\ IsAt(s, w, Len(s) - Len(w) + 1)

\* The least number of a set of numbers that is not empty, else 0
Least(S) == IF S = {} THEN 0 ELSE CHOOSE n \in S : \A m \in S : n <= m

\* The occurrences of old are taken from the left and do not overlap.
RECURSIVE ReplaceFrom(_, _, _, _)
ReplaceFrom(s, old, new, p) ==
    LET n == Least({ m \in p..Len(s) : IsAt(s, old, m) })
    IN  IF n = 0 THEN SubSeq(s, p, Len(s))
        ELSE SubSeq(s, p, n - 1) \o new \o ReplaceFrom(s, old, new, n + Len(old))

\* s.replace(old, new), old not empty
Replace(s, old, new) == ReplaceFrom(s, old, new, 1)

RECURSIVE Concat(_)
Concat(parts) == IF parts = <<>> THEN <<>> ELSE Head(parts) \o Concat(Tail(parts))

IsSpace(c) == c = " "

\* s.strip()
strip(s) ==
    LET keep == { n \in 1..Len(s) : ~IsSpace(s[n]) }
    IN  IF keep = {} THEN <<>>
        ELSE LET lo == CHOOSE n \in keep : \A m \in keep : n <= m
                 hi == CHOOSE n \in keep : \A m \in keep : n >= m
             IN  SubSeq(s, lo, hi)

\* html.escape of one character (quote=True)
EscapeChunk(c) ==
    CASE c = "&" -> "&amp;"
      [] c = "<" -> "&lt;"
      [] c = ">" -> "&gt;"
      [] c = "\"" -> "&quot;"
      [] c = "'" -> "&#x27;"
      [] c = ERR_OPEN -> "&lt;ERR&gt;"
      [] c = ERR_CLOSE -> "&lt;/ERR&gt;"
      [] OTHER -> c

escape(s) == [n \in 1..Len(s) |-> EscapeChunk(s[n])]

\* The ascending sequence of the numbers of a set.
RECURSIVE SortedSeq(_)
SortedSeq(S) ==
    IF S = {} THEN <<>>
    ELSE LET m == CHOOSE x \in S : \A y \in S : x <= y
         IN  <<m>> \o SortedSeq(S \ {m})

-----------------------------------------------------------------------------
(* VALID_PERIOD_PATTERNS and find_invalid_periods *)

\* \b before a word character at position p of s
WordStartAt(s, p) == p = 1 \/ ~IsWordChar(s[p - 1])

AllIn(s, lo, hi, set) == \A n \in lo..hi : s[n] \in set

\* The spans <<p, q>> (first and last position) of the matches of \b[set]+\. in s
NumberedListSpans(s, set) ==
    { <<p, q>> \in (1..Len(s)) \X (1..Len(s)) :
        /\ q > p
        /\ WordStartAt(s, p)
        /\ AllIn(s, p, q - 1, set)
        /\ s[q] = "." }

\* \b[ko kai - ho nokhuk]\.
AlphaListSpans(s) ==
    { <<p, q>> \in (1..Len(s)) \X (1..Len(s)) :
        /\ q = p + 1
        /\ WordStartAt(s, p)
        /\ s[p] \in ThaiConsonants
        /\ s[q] = "." }

\* \b[thai digit]{1,2}\.[thai digit]{1,2}
ThaiTimeSpans(s) ==
    { <<p, q>> \in (1..Len(s)) \X (1..Len(s)) :
        \E d \in 1..Len(s) :
            /\ p < d /\ d < q
            /\ d - p \in 1..2 /\ q - d \in 1..2
            /\ WordStartAt(s, p)
            /\ AllIn(s, p, d - 1, ThaiDigits)
            /\ s[d] = "."
            /\ AllIn(s, d + 1, q, ThaiDigits) }

\* \b<c1>\.<c2>\.  (the Buddhist and the Christian era)
EraSpans(s, c1, c2) ==
    { <<p, q>> \in (1..Len(s)) \X (1..Len(s)) :
        /\ q = p + 3
        /\ WordStartAt(s, p)
        /\ SubSeq(s, p, q) = <<c1, ".", c2, ".">> }

\* \.{3,}
EllipsisSpans(s) ==
    { <<p, q>> \in (1..Len(s)) \X (1..Len(s)) :
        /\ q >= p + 2
        /\ AllIn(s, p, q, {"."}) }

VALID_PERIOD_PATTERNS == 1..7

\* The spans of the matches of pattern k in s.
PatternSpans(k, s) ==
    CASE k = 1 -> NumberedListSpans(s, ArabicDigits)
      [] k = 2 -> AlphaListSpans(s)
      [] k = 3 -> NumberedListSpans(s, ThaiDigits)
      [] k = 4 -> ThaiTimeSpans(s)
      [] k = 5 -> EraSpans(s, "p", "h")
      [] k = 6 -> EraSpans(s, "k", "h")
      [] k = 7 -> EllipsisSpans(s)

\* re.search(pattern, s) finds a match
Search(k, s) == PatternSpans(k, s) # {}

\* text[max(0, match.start() - 5):match.end() + 5], p the (1-based) place of the period
ContextLo(text, p) == IF p - ContextRadius < 1 THEN 1 ELSE p - ContextRadius

ContextHi(text, p) == IF p + ContextRadius > Len(text) THEN Len(text) ELSE p + ContextRadius

Context(text, p) == SubSeq(text, ContextLo(text, p), ContextHi(text, p))

PeriodPlaces(text) == { p \in 1..Len(text) : text[p] = "." }

\* The name the loop over the patterns looks up.
PatternsName == "VALID_PERIOD_PATTERns"

\* [raised |-> the call raised NameError, value |-> the list returned]
find_invalid_periods(text) ==
    IF PeriodPlaces(text) = {}
    THEN [raised |-> FALSE, value |-> <<>>]
    ELSE IF PatternsName \notin ModuleGlobals
    THEN [raised |-> TRUE, value |-> <<>>]
    ELSE [raised |-> FALSE,
          value |-> SortedSeq({ p - 1 : p \in
                      { q \in PeriodPlaces(text) :
                          ~\E k \in VALID_PERIOD_PATTERNS : Search(k, Context(text, q)) } })]

-----------------------------------------------------------------------------
(* find_common_errors, safe_check, find_l_errors *)

\* The words of COMMON_ERRORS that are in text (the list, as the set of its words).
find_common_errors(text) == { word \in COMMON_ERRORS : Contains(text, word) }

\* The try block without its except clause: the exception of the call leaves it.
safe_check_unguarded(text, outcome) ==
    IF outcome.raises THEN [raised |-> TRUE, value |-> <<>>]
    ELSE [raised |-> FALSE, value |-> outcome.marked]

\* outcome is what thaispellcheck.check does on this call: it raises, or returns
\* the string marked.  safe_check returns marked, or text when the call raised
\* or marked without its markers is shorter than half of text.
\* [raised |-> an exception left safe_check, value |-> the string returned]
safe_check(text, outcome) ==
    IF outcome.raises THEN [raised |-> FALSE, value |-> text]
    ELSE LET marked == outcome.marked
             clean_marked == Replace(Replace(marked, <<ERR_OPEN>>, <<>>), <<ERR_CLOSE>>, <<>>)
         IN  IF 2 * StrLen(clean_marked) < StrLen(text)
             THEN [raised |-> FALSE, value |-> text]
             ELSE [raised |-> FALSE, value |-> marked]

DigitValue(c) ==
    CASE c = "0" -> 0 [] c = "1" -> 1 [] c = "2" -> 2 [] c = "3" -> 3 [] c = "4" -> 4
      [] c = "5" -> 5 [] c = "6" -> 6 [] c = "7" -> 7 [] c = "8" -> 8 [] c = "9" -> 9
      [] c = "t1" -> 1

RECURSIVE IntOf(_)
IntOf(digits) ==
    IF digits = <<>> THEN 0
    ELSE 10 * IntOf(SubSeq(digits, 1, Len(digits) - 1)) + DigitValue(digits[Len(digits)])

\* re.match(r"^[Ll](\d+):", text): [found, group0, group1]
l_match_of(text) ==
    LET ends == { q \in 3..Len(text) :
                    /\ text[1] \in {"L", "l"}
                    /\ AllIn(text, 2, q - 1, ArabicDigits \cup ThaiDigits)
                    /\ text[q] = ":" }
    IN  IF ends = {} THEN [found |-> FALSE, group0 |-> <<>>, group1 |-> <<>>]
        ELSE LET q == CHOOSE e \in ends : TRUE
             IN  [found |-> TRUE, group0 |-> SubSeq(text, 1, q), group1 |-> SubSeq(text, 2, q - 1)]

\* The loop of find_l_errors from pair n on; expected_l = 0 stands for None.
RECURSIVE find_l_errors_from(_, _, _)
find_l_errors_from(pairs, n, expected_l) ==
    IF n > Len(pairs) THEN <<>>
    ELSE LET line_no == pairs[n][1]
             current_l == pairs[n][2]
             expected == IF n = 1 THEN current_l ELSE expected_l
             here == IF n > 1 /\ current_l # expected_l THEN <<line_no>> ELSE <<>>
         IN  here \o find_l_errors_from(pairs, n + 1, expected + 1)

find_l_errors(paragraphs_with_l) == find_l_errors_from(paragraphs_with_l, 1, 0)

-----------------------------------------------------------------------------
(* render_html: the highlighting passes over one finding *)

\* mark(text, color)
mark(text, color) ==
    <<"<", "mark", " style=", "'", "background-color:" \o color \o ";", "'", ">">>
        \o text \o <<"<", "/", "mark", ">">>

MARK_CLOSE == <<"<", "/", "mark", ">">>

SPELL_OPEN == <<"<", "mark", " style=", "'", "background-color:#ffcccc;", "'", ">">>

\* The least n in from..Len(s) with s[n] = c, or 0
FirstChunk(s, c, from) == Least({ n \in from..Len(s) : s[n] = c })

\* The least n in from..Len(s) where </mark> starts, or 0
FirstClose(s, from) == Least({ n \in from..Len(s) : IsAt(s, MARK_CLOSE, n) })

\* Step 1: the spell checker's markers become red wrappers.
Step1(marked) == Replace(Replace(marked, <<ERR_OPEN>>, SPELL_OPEN), <<ERR_CLOSE>>, MARK_CLOSE)

\* Where the match of <mark[^>]*>.*?</mark> that starts at p ends, or 0
MarkMatchEnd(s, p) ==
    IF ~IsAt(s, <<"<", "mark">>, p) THEN 0
    ELSE LET g == FirstChunk(s, ">", p + 2)
         IN  IF g = 0 THEN 0
             ELSE LET e == FirstClose(s, g + 1)
                  IN  IF e = 0 THEN 0 ELSE e + 3

\* re.split(r'(<mark[^>]*>.*?</mark>)', s) from p on: the text before the next
\* match, the match, and so on
RECURSIVE SplitFrom(_, _)
SplitFrom(s, p) ==
    LET n == Least({ m \in p..Len(s) : MarkMatchEnd(s, m) > 0 })
    IN  IF n = 0 THEN << SubSeq(s, p, Len(s)) >>
        ELSE << SubSeq(s, p, n - 1), SubSeq(s, n, MarkMatchEnd(s, n)) >>
                 \o SplitFrom(s, MarkMatchEnd(s, n) + 1)

\* Step 2: every part that is not a <mark ...>...</mark> is escaped.
Step2(processed_text) ==
    LET parts == SplitFrom(processed_text, 1)
        safe_parts == [n \in 1..Len(parts) |->
            IF StartsWith(parts[n], <<"<", "mark">>) /\ EndsWith(parts[n], MARK_CLOSE)
            THEN parts[n]
            ELSE escape(parts[n])]
    IN  Concat(safe_parts)

\* Step 3: every phinthu is wrapped.
Step3(safe_text) ==
    Replace(safe_text, escape(<<PHINTHU>>), mark(escape(<<PHINTHU>>), "#ffb84d"))

\* <(?!\/?mark) fails at p
IsMarkTagAt(s, p) == IsAt(s, <<"<", "mark">>, p) \/ IsAt(s, <<"<", "/", "mark">>, p)

\* Where the apostrophe of a match of
\*     ((?:[^<]|<(?!\/?mark)[^>]*>)*?)'(?!<)
\* that starts at pos is, or 0
\* The group takes one character that is not <, or one whole tag that is not a
\* mark tag, at a time, and stops at the first ' that no < follows.
RECURSIVE ApostropheFrom(_, _)
ApostropheFrom(s, pos) ==
    LET n == Least({ m \in pos..Len(s) :
                       \/ s[m] = "<"
                       \/ s[m] = "'" /\ (m = Len(s) \/ s[m + 1] # "<") })
    IN  IF n = 0 THEN 0
        ELSE IF s[n] = "'" THEN n
        ELSE IF IsMarkTagAt(s, n) THEN 0
        ELSE LET g == FirstChunk(s, ">", n + 1)
             IN  IF g = 0 THEN 0 ELSE ApostropheFrom(s, g + 1)

\* re.sub from p on: the leftmost start that matches, then on after the match
RECURSIVE Step4From(_, _)
Step4From(s, p) ==
    LET n == Least({ m \in p..Len(s) : ApostropheFrom(s, m) > 0 })
    IN  IF n = 0 THEN SubSeq(s, p, Len(s))
        ELSE SubSeq(s, p, ApostropheFrom(s, n) - 1) \o mark(<<"'">>, "#d5b3ff")
                 \o Step4From(s, ApostropheFrom(s, n) + 1)

\* Step 4: re.sub of the apostrophe pattern.
Step4(safe_text) == Step4From(safe_text, 1)

\* (?![^<]*>) fails after position q: a > follows with no < before it
ClosesTagAfter(s, q) ==
    \E g \in (q + 1)..Len(s) : s[g] = ">" /\ \A m \in (q + 1)..(g - 1) : s[m] # "<"

RECURSIVE Step5From(_, _)
Step5From(s, p) ==
    LET n == Least({ m \in p..Len(s) : s[m] = "." /\ ~ClosesTagAfter(s, m) })
    IN  IF n = 0 THEN SubSeq(s, p, Len(s))
        ELSE SubSeq(s, p, n - 1) \o mark(<<".">>, "#add8e6") \o Step5From(s, n + 1)

\* Step 5: re.sub of (\.)(?![^<]*>)
Step5(safe_text) == Step5From(safe_text, 1)

\* The orders in which a loop over the set COMMON_ERRORS can take its words.
IterationOrders ==
    { f \in [1..Cardinality(COMMON_ERRORS) -> COMMON_ERRORS] :
        \A m, n \in 1..Cardinality(COMMON_ERRORS) : m # n => f[m] # f[n] }

\* Step 6: every occurrence of every word of COMMON_ERRORS is wrapped, word by word.
RECURSIVE Step6From(_, _, _)
Step6From(safe_text, order, n) ==
    IF n > Len(order) THEN safe_text
    ELSE Step6From(
             Replace(safe_text, escape(order[n]), mark(escape(order[n]), "#ffff66")),
             order, n + 1)

Step6(safe_text, order) == Step6From(safe_text, order, 1)

\* Step 7: the L-number of a line with an L-sequence error is wrapped.
Step7(safe_text, item) ==
    IF item.l_sequence_error = TRUE /\ item.l_match.found
    THEN Replace(safe_text, escape(item.l_match.group0),
                 mark(escape(item.l_match.group0), "#90ee90"))
    ELSE safe_text

\* safe_text of one finding, as the output block shows it
render_item(item, order) ==
    Step7(Step6(Step5(Step4(Step3(Step2(Step1(item.marked))))), order), item)

-----------------------------------------------------------------------------
(* The inputs: the uploaded document and what the spell checker answers *)

\* The paragraphs a document is made of.
RawTexts ==
    { <<" ">>,                                    \* blank
      <<" ", "r", "'">>,                          \* an apostrophe
      <<"s", "a", "r">>,                          \* SO-AA inside a longer word
      <<"s", "a", "y">>,                          \* both common-error words
      <<"s", "a", " ", "r", "s", "a">>,           \* a word, then the word inside another
      <<"r", PHINTHU>>,                           \* a phinthu
      <<"1", ".">>,                               \* a numbered list marker
      <<"<", "mark", ">", "r", "&", "<", "/", "mark", ">", "'">>, \* a literal <mark>..</mark>
      <<"L", "1", ":">> }

Documents == UNION { [1..n -> RawTexts] : n \in 0..MaxParas }

\* The stretches the spell checker can mark, <<first, last>>: the runs of Thai
\* characters between two characters that are not Thai.
DetectorSpans(text) ==
    { <<lo, hi>> \in (1..Len(text)) \X (1..Len(text)) :
        /\ lo <= hi
        /\ AllIn(text, lo, hi, ThaiChunks)
        /\ (lo = 1 \/ text[lo - 1] \notin ThaiChunks)
        /\ (hi = Len(text) \/ text[hi + 1] \notin ThaiChunks) }

SpanSets(text) ==
    { S \in SUBSET DetectorSpans(text) :
        /\ Cardinality(S) <= MaxMarks
        /\ \A x, y \in S : x # y => (x[2] < y[1] \/ y[2] < x[1]) }

\* text with the spans of S between the spell checker's markers
RECURSIVE MarkedFrom(_, _, _)
MarkedFrom(text, S, p) ==
    LET n == Least({ m \in p..Len(text) : \E x \in S : x[1] = m })
    IN  IF n = 0 THEN SubSeq(text, p, Len(text))
        ELSE LET x == CHOOSE y \in S : y[1] = n
             IN  SubSeq(text, p, n - 1) \o <<ERR_OPEN>> \o SubSeq(text, n, x[2])
                     \o <<ERR_CLOSE>> \o MarkedFrom(text, S, x[2] + 1)

\* thaispellcheck.check(text): it raises, returns text with some stretches
\* marked, or returns a string far shorter than text.
DetectorOutcomes(text) ==
    { [raises |-> TRUE, marked |-> <<>>] }
        \cup { [raises |-> FALSE, marked |-> MarkedFrom(text, S, 1)] : S \in SpanSets(text) }
        \cup { [raises |-> FALSE, marked |-> <<>>] }

\* The arguments find_l_errors is called with on its own.
LPairLists ==
    UNION { { f \in [1..n -> (1..(MaxLPairs + 1)) \X (1..MaxLNumber)] :
                \A m \in 1..(n - 1) : f[m][1] < f[m + 1][1] } : n \in 0..MaxLPairs }

-----------------------------------------------------------------------------
(* check_docx *)

\* How many of the first n paragraphs are not empty once stripped
NonEmptyRank(paras, n) == Cardinality({ m \in 1..n : strip(paras[m]) # <<>> })

\* The number a counter of the paragraphs that are not empty would give.
line_no_among_non_empty(paras, idx) == NonEmptyRank(paras, idx + 1)

\* "line_no": i + 1, i the index enumerate gives the paragraph in doc.paragraphs
line_no_of(paras, idx) == idx + 1

\* The condition under which a finding is appended.
IsFinding(marked, has_phinthu, has_apostrophe, invalid_periods, common_errors, l_match) ==
    \/ Contains(marked, <<ERR_OPEN>>)
    \/ has_phinthu
    \/ has_apostrophe
    \/ invalid_periods # <<>>
    \/ common_errors # {}
    \/ l_match.found

\* l_paragraphs after the L-number check of text
WithLParagraph(lps, text, idx) ==
    IF l_match_of(text).found
    THEN Append(lps, <<idx + 1, IntOf(l_match_of(text).group1)>>)
    ELSE lps

Init ==
    /\ pc = "idle"
    /\ paragraphs = <<>>
    /\ i = 0
    /\ results = <<>>
    /\ l_paragraphs = <<>>
    /\ exception = "none"
    /\ spell_raised = {}
    /\ rendered = <<>>
    /\ l_input = <<>>
    /\ l_output = <<"none">>

\* A file is uploaded: check_docx starts.
Upload ==
    /\ pc = "idle"
    /\ \E doc \in Documents : paragraphs' = doc
    /\ pc' = "scan"
    /\ i' = 0
    /\ results' = <<>>
    /\ l_paragraphs' = <<>>
    /\ UNCHANGED <<exception, spell_raised, rendered, l_input, l_output>>

\* A paragraph that is empty once stripped is passed over.
SkipEmpty ==
    /\ pc = "scan"
    /\ i < Len(paragraphs)
    /\ strip(paragraphs[i + 1]) = <<>>
    /\ i' = i + 1
    /\ UNCHANGED <<pc, paragraphs, results, l_paragraphs, exception, spell_raised,
                   rendered, l_input, l_output>>

\* find_invalid_periods raises: the exception leaves check_docx.
PeriodCheckRaises ==
    /\ pc = "scan"
    /\ i < Len(paragraphs)
    /\ LET text == strip(paragraphs[i + 1])
       IN  /\ text # <<>>
           /\ find_invalid_periods(text).raised
           /\ l_paragraphs' = WithLParagraph(l_paragraphs, text, i)
    /\ pc' = "crashed"
    /\ exception' = "NameError"
    /\ UNCHANGED <<paragraphs, i, results, spell_raised, rendered, l_input, l_output>>

\* One paragraph goes through all the checks.
AnalyzeParagraph ==
    /\ pc = "scan"
    /\ i < Len(paragraphs)
    /\ LET text == strip(paragraphs[i + 1])
           l_match == l_match_of(text)
           has_phinthu == PHINTHU \in Range(text)
           has_apostrophe == "'" \in Range(text)
           invalid_periods == find_invalid_periods(text)
           common_errors == find_common_errors(text)
       IN  /\ text # <<>>
           /\ ~invalid_periods.raised
           /\ l_paragraphs' = WithLParagraph(l_paragraphs, text, i)
           /\ \E outcome \in DetectorOutcomes(text) :
                LET checked == safe_check(text, outcome)
                    marked == checked.value
                IN  /\ spell_raised' =
                         IF outcome.raises THEN spell_raised \cup {i + 1} ELSE spell_raised
                    /\ IF checked.raised
                       THEN /\ pc' = "crashed"
                            /\ exception' = "Exception"
                            /\ UNCHANGED <<results, i>>
                       ELSE /\ results' =
                                 IF IsFinding(marked, has_phinthu, has_apostrophe,
                                              invalid_periods.value, common_errors, l_match)
                                 THEN Append(results,
                                          [line_no |-> line_no_of(paragraphs, i),
                                           original |-> text,
                                           marked |-> marked,
                                           has_phinthu |-> has_phinthu,
                                           has_apostrophe |-> has_apostrophe,
                                           invalid_periods |-> invalid_periods.value,
                                           common_errors |-> common_errors,
                                           l_match |-> l_match,
                                           l_sequence_error |-> "unset"])
                                 ELSE results
                            /\ i' = i + 1
                            /\ UNCHANGED <<pc, exception>>
    /\ UNCHANGED <<paragraphs, rendered, l_input, l_output>>

\* After the loop: the L-sequence check, then check_docx returns.
FinishScan ==
    /\ pc = "scan"
    /\ i = Len(paragraphs)
    /\ LET l_sequence_errors_lines == find_l_errors(l_paragraphs)
       IN  results' = [n \in 1..Len(results) |->
               [results[n] EXCEPT !.l_sequence_error =
                   results[n].line_no \in Range(l_sequence_errors_lines)]]
    /\ pc' = "returned"
    /\ UNCHANGED <<paragraphs, i, l_paragraphs, exception, spell_raised, rendered,
                   l_input, l_output>>

\* render_html(results), for a list that is not empty
RenderHtml ==
    /\ pc = "returned"
    /\ results # <<>>
    /\ \E order \in IterationOrders :
         rendered' = [n \in 1..Len(results) |-> render_item(results[n], order)]
    /\ pc' = "rendered"
    /\ UNCHANGED <<paragraphs, i, results, l_paragraphs, exception, spell_raised,
                   l_input, l_output>>

\* No finding: the success message.
NoIssues ==
    /\ pc = "returned"
    /\ results = <<>>
    /\ pc' = "clean"
    /\ UNCHANGED <<paragraphs, i, results, l_paragraphs, exception, spell_raised,
                   rendered, l_input, l_output>>

Next ==
    \/ Upload
    \/ SkipEmpty
    \/ PeriodCheckRaises
    \/ AnalyzeParagraph
    \/ FinishScan
    \/ RenderHtml
    \/ NoIssues

Spec == Init /\ [][Next]_vars

-----------------------------------------------------------------------------
(* find_l_errors on its own *)

InitL ==
    /\ pc = "idle"
    /\ paragraphs = <<>>
    /\ i = 0
    /\ results = <<>>
    /\ l_paragraphs = <<>>
    /\ exception = "none"
    /\ spell_raised = {}
    /\ rendered = <<>>
    /\ l_input \in LPairLists
    /\ l_output = <<"none">>

CallFindLErrors ==
    /\ l_output = <<"none">>
    /\ l_output' = <<"ok", find_l_errors(l_input)>>
    /\ UNCHANGED <<pc, paragraphs, i, results, l_paragraphs, exception, spell_raised,
                   rendered, l_input>>

NextL == CallFindLErrors

SpecL == InitL /\ [][NextL]_vars

-----------------------------------------------------------------------------
(* Helpers of the properties *)

Count(s, c) == Cardinality({ n \in 1..Len(s) : s[n] = c })

Ascending(s) == \A n \in 1..(Len(s) - 1) : s[n] < s[n + 1]

\* The offsets of the periods of text that no whitelist match covers: a match of a
\* pattern in the window of the period, moved back to the offsets of text, has the
\* period inside its span.
UncoveredPeriods(text) ==
    { p - 1 : p \in
        { q \in PeriodPlaces(text) :
            ~\E k \in VALID_PERIOD_PATTERNS :
                \E span \in PatternSpans(k, Context(text, q)) :
                    /\ ContextLo(text, q) + span[1] - 1 <= q
                    /\ q <= ContextLo(text, q) + span[2] - 1 } }

\* s without its wrappers: every <mark ...> and every </mark> taken out
RECURSIVE StripMarkup(_)
StripMarkup(s) ==
    LET n == Least({ m \in 1..Len(s) :
                       \/ IsAt(s, MARK_CLOSE, m)
                       \/ IsAt(s, <<"<", "mark">>, m) /\ FirstChunk(s, ">", m + 2) > 0 })
    IN  IF n = 0 THEN s
        ELSE SubSeq(s, 1, n - 1)
                 \o StripMarkup(SubSeq(s, FirstChunk(s, ">", n + 2) + 1, Len(s)))

\* The greatest number of wrappers open at once in s from p on, depth of them
\* being open at p.  A tag runs from its < to the next >.
RECURSIVE MaxDepthFrom(_, _, _)
MaxDepthFrom(s, p, depth) ==
    LET n == FirstChunk(s, "<", p)
        g == FirstChunk(s, ">", n + 1)
    IN  IF n = 0 \/ g = 0 THEN depth
        ELSE IF IsAt(s, <<"<", "mark">>, n)
        THEN LET rest == MaxDepthFrom(s, g + 1, depth + 1)
             IN  IF rest > depth + 1 THEN rest ELSE depth + 1
        ELSE IF IsAt(s, MARK_CLOSE, n)
        THEN LET rest == MaxDepthFrom(s, g + 1, depth - 1)
             IN  IF rest > depth THEN rest ELSE depth
        ELSE MaxDepthFrom(s, g + 1, depth)

\* Every occurrence of w in marked lies between the spell checker's markers.
OnlyInsideSpellMarks(marked, w) ==
    \A p \in 1..Len(marked) :
        IsAt(marked, w, p) =>
            Count(SubSeq(marked, 1, p - 1), ERR_OPEN) > Count(SubSeq(marked, 1, p - 1), ERR_CLOSE)

\* A character a token is made of.
IsTokenChunk(c) == IsWordChar(c) \/ c \in ThaiChunks

\* w is a whole token of text at p.
WholeTokenAt(text, w, p) ==
    /\ IsAt(text, w, p)
    /\ (p = 1 \/ ~IsTokenChunk(text[p - 1]))
    /\ (p + Len(w) > Len(text) \/ ~IsTokenChunk(text[p + Len(w)]))

WholeTokenOccurrences(text) ==
    { <<w, p>> \in COMMON_ERRORS \X (1..Len(text)) : WholeTokenAt(text, w, p) }

-----------------------------------------------------------------------------
(* The properties *)

\* C1: for every paragraph text, find_invalid_periods returns normally, and what
\* it returns is, in ascending order, exactly the offsets of the periods that no
\* whitelist match in their window covers.
C1_SuspectPeriodsReported ==
    \A n \in 1..Len(paragraphs) :
        LET text == strip(paragraphs[n])
            got == find_invalid_periods(text)
        IN  /\ ~got.raised
            /\ got.value = SortedSeq(UncoveredPeriods(text))
            /\ Ascending(got.value)

\* C3: once the findings are rendered, the annotated text of every finding
\* without its wrappers is the escaped original text.
C3_StripGivesEscapedText ==
    pc = "rendered" =>
        \A n \in 1..Len(results) : StripMarkup(rendered[n]) = escape(results[n].original)

\* C4: in the annotated text no wrapper is open inside another one, and a phinthu
\* or a common-error word that lies only inside ranges the spell checker marked
\* gets no wrapper of its own colour.
C4_HighlightsDoNotOverlap ==
    pc = "rendered" =>
        \A n \in 1..Len(results) :
            /\ MaxDepthFrom(rendered[n], 1, 0) <= 1
            /\ (PHINTHU \in Range(results[n].marked)
                    /\ OnlyInsideSpellMarks(results[n].marked, <<PHINTHU>>))
                   => "background-color:#ffb84d;" \notin Range(rendered[n])
            /\ (results[n].common_errors # {}
                    /\ \A w \in COMMON_ERRORS : OnlyInsideSpellMarks(results[n].marked, w))
                   => "background-color:#ffff66;" \notin Range(rendered[n])

\* C5: a common-error word is reported for a paragraph only if it is a whole
\* token of it somewhere, and the annotated text has no more common-error
\* wrappers than the paragraph has whole-token occurrences of the words.
C5_WholeTokenMatchesOnly ==
    \A n \in 1..Len(results) :
        /\ \A w \in results[n].common_errors :
               \E p \in 1..Len(results[n].original) : WholeTokenAt(results[n].original, w, p)
        /\ pc = "rendered" =>
               Count(rendered[n], "background-color:#ffff66;")
                   <= Cardinality(WholeTokenOccurrences(results[n].original))

\* C6: for every paragraph on which the spell checker raised, no exception left
\* the analysis of that paragraph; if another check flags the paragraph, there
\* is a finding for its line whose marked text is the original text, without
\* markers, and which carries what the other checks found; if none does, there
\* is no finding for the line.
C6_SpellCheckFailureIsolated ==
    \A ln \in spell_raised :
        LET text == strip(paragraphs[ln])
            flagged == \/ PHINTHU \in Range(text)
                       \/ "'" \in Range(text)
                       \/ \E w \in COMMON_ERRORS : Contains(text, w)
                       \/ (text[1] \in {"L", "l"} /\ \E q \in 3..Len(text) :
                              text[q] = ":" /\ AllIn(text, 2, q - 1, ArabicDigits \cup ThaiDigits))
            found == { n \in 1..Len(results) : results[n].line_no = ln }
        IN  /\ ~(pc = "crashed" /\ i + 1 = ln)
            /\ flagged => \E n \in found :
                   /\ results[n].marked = text
                   /\ ERR_OPEN \notin Range(results[n].marked)
                   /\ results[n].has_phinthu = (PHINTHU \in Range(text))
                   /\ results[n].has_apostrophe = ("'" \in Range(text))
                   /\ results[n].common_errors = { w \in COMMON_ERRORS : Contains(text, w) }
                   /\ results[n].invalid_periods = <<>>
            /\ ~flagged => found = {}

\* C6, its case: check_docx has returned a finding with an apostrophe for a
\* paragraph on which the spell checker raised.
C6_Witness ==
    /\ pc = "returned"
    /\ \E n \in 1..Len(results) :
           results[n].line_no \in spell_raised /\ results[n].has_apostrophe

\* C7: check_docx never ends with an exception.
C7_ScanNeverAborts == pc # "crashed"

\* C8: every <, > and & of the original text is in the annotated text in its
\* escaped form, and no & is left unescaped.
C8_OriginalMarkupEscaped ==
    pc = "rendered" =>
        \A n \in 1..Len(results) :
            /\ \A c \in {"<", ">", "&"} :
                   Count(rendered[n], EscapeChunk(c)) = Count(results[n].original, c)
            /\ "&" \notin Range(rendered[n])

\* C9 as stated: line_no of a finding is the position of its paragraph among the
\* paragraphs that are not empty, and the line numbers ascend.
C9_LineNoCountsNonEmpty ==
    /\ \A n \in 1..Len(results) :
           \E j \in 1..Len(paragraphs) :
               /\ strip(paragraphs[j]) = results[n].original
               /\ results[n].line_no = NonEmptyRank(paragraphs, j)
    /\ \A n \in 1..(Len(results) - 1) : results[n].line_no < results[n + 1].line_no

\* C9 as amended: line_no of a finding is the position of its paragraph among
\* all the paragraphs of the document, the empty ones counted, and the line
\* numbers ascend.
C9_LineNoIsParagraphIndex ==
    /\ \A n \in 1..Len(results) :
           /\ results[n].line_no \in 1..Len(paragraphs)
           /\ strip(paragraphs[results[n].line_no]) = results[n].original
    /\ \A n \in 1..(Len(results) - 1) : results[n].line_no < results[n + 1].line_no

\* C9, its case: check_docx has returned a finding that an empty paragraph precedes.
C9_Witness ==
    /\ pc = "returned"
    /\ \E n \in 1..Len(results) :
           results[n].line_no # NonEmptyRank(paragraphs, results[n].line_no)

\* C10: find_l_errors returns the lines whose L-number is not one more than the
\* L-number of the pair before, and no other line.
C10_ReportsExactlyTheGaps ==
    l_output[1] = "ok" =>
        Range(l_output[2]) =
            { l_input[n][1] : n \in
                { m \in 2..Len(l_input) : l_input[m][2] # l_input[m - 1][2] + 1 } }

====
